---- MODULE Spec2Model ----
(***************************************************************************)
(* A model of the transifex client: the "set" commands of                  *)
(* txclib/commands.py, which register source and translation files in the  *)
(* project configuration, and Project.push of txclib/project.py.           *)
(*                                                                         *)
(* Strings that the code inspects (resource identifiers, language codes,   *)
(* file paths, resource slugs) are sequences of one-character strings, so  *)
(* that split('.'), the `in` substring test and the os.path functions are  *)
(* computed as Python computes them.                                       *)
(***************************************************************************)
EXTENDS Integers, Sequences, FiniteSets, TLC

VARIABLES
    saved,      \* .tx/config on disk: section name -> (option -> value)
    saved0,     \* .tx/config on disk when the last command started
    mem,        \* prj.config of the last command when it ended
    cwd,        \* working directory of the last command's process at its end
    cwd0,       \* working directory the last command was started in
    cmd,        \* the last command and its arguments
    result,     \* how the last command ended
    fileIO,     \* whether the last command touched the file system
    ncmd,       \* number of commands run so far
    pc,         \* position of the push in Project.push
    txdata,     \* self.txdata['resources'] of the pushing project
    remote,     \* resources the remote service lists for the project
    opts,       \* the options cmd_push was called with
    reqs,       \* requests issued to the remote service, in order
    ri,         \* index of the resource being pushed
    li,         \* index of the translation being pushed
    uuid,       \* upload handle returned by the last successful upload
    issued,     \* number of upload handles the service has handed out
    exitStatus, \* exit status of the push or pull process (-1 while running)
    localFiles  \* the local files of a pulling project: path -> content

setVars == <<saved, saved0, mem, cwd, cwd0, cmd, result, fileIO, ncmd>>
pushVars == <<pc, txdata, remote, opts, reqs, ri, li, uuid, issued, exitStatus,
             localFiles>>
vars == <<saved, saved0, mem, cwd, cwd0, cmd, result, fileIO, ncmd,
          pc, txdata, remote, opts, reqs, ri, li, uuid, issued, exitStatus,
          localFiles>>

----------------------------------------------------------------------------
(* Bounds *)

\* commands run against one project
MaxCmds == 2

\* resources a remote project or release lists
MaxListed == 2

\* resources in the txdata of a pushing project
MaxResources == 3

\* resources the remote service lists in answer to get_resources
MaxRemote == 1

----------------------------------------------------------------------------
(* Python strings *)

\* str.split(sep): the pieces of s between occurrences of the character sep
RECURSIVE SplitFrom(_, _, _, _)
SplitFrom(s, sep, i, cur) ==
    IF i > Len(s) THEN <<cur>>
    ELSE IF s[i] = sep THEN <<cur>> \o SplitFrom(s, sep, i + 1, <<>>)
    ELSE SplitFrom(s, sep, i + 1, Append(cur, s[i]))

Split(s, sep) == SplitFrom(s, sep, 1, <<>>)

\* sep.join(parts)
RECURSIVE Join(_, _)
Join(parts, sep) ==
    IF Len(parts) = 0 THEN <<>>
    ELSE IF Len(parts) = 1 THEN parts[1]
    ELSE parts[1] \o <<sep>> \o Join(Tail(parts), sep)

\* a in b, for strings: a occurs in b as a contiguous substring
IsSubstring(a, b) ==
    \E i \in 0..(Len(b) - Len(a)) : SubSeq(b, i + 1, i + Len(a)) = a

\* the members of a list
Range(list) == {list[i] : i \in 1..Len(list)}

\* characters a slug may hold: word characters, '-' and '_'
SlugChars == {"p", "q", "r", "s", "a", "b", "2", "-", "_"}

----------------------------------------------------------------------------
(* os.path *)

IsAbs(p) == Len(p) > 0 /\ p[1] = "/"

\* os.path.join(a, b)
PathJoin(a, b) ==
    IF IsAbs(b) THEN b
    ELSE IF Len(a) = 0 \/ a[Len(a)] = "/" THEN a \o b
    ELSE a \o <<"/">> \o b

\* the components of os.path.normpath: empty and '.' dropped, '..' resolved
RECURSIVE NormComps(_, _, _)
NormComps(comps, acc, abs) ==
    IF Len(comps) = 0 THEN acc
    ELSE LET c == Head(comps) IN
         IF c = <<>> \/ c = <<".">> THEN NormComps(Tail(comps), acc, abs)
         ELSE IF c = <<".", ".">> THEN
             IF Len(acc) > 0 /\ acc[Len(acc)] # <<".", ".">>
                 THEN NormComps(Tail(comps), SubSeq(acc, 1, Len(acc) - 1), abs)
             ELSE IF abs THEN NormComps(Tail(comps), acc, abs)
             ELSE NormComps(Tail(comps), Append(acc, c), abs)
         ELSE NormComps(Tail(comps), Append(acc, c), abs)

\* os.path.normpath(p)
NormPath(p) ==
    LET comps == NormComps(Split(p, "/"), <<>>, IsAbs(p))
        body  == Join(comps, "/")
    IN IF IsAbs(p) THEN <<"/">> \o body
       ELSE IF Len(body) = 0 THEN <<".">> ELSE body

\* os.path.abspath(p) in a process whose working directory is dir
AbsPath(p, dir) == NormPath(PathJoin(dir, p))

\* length of the longest common prefix of two component lists
RECURSIVE CommonLen(_, _)
CommonLen(a, b) ==
    IF Len(a) = 0 \/ Len(b) = 0 \/ Head(a) # Head(b) THEN 0
    ELSE 1 + CommonLen(Tail(a), Tail(b))

\* txclib.utils.relpath(path, start) in a process whose working directory is dir
relpath(path, start, dir) ==
    LET startList == NormComps(Split(AbsPath(start, dir), "/"), <<>>, TRUE)
        pathList  == NormComps(Split(AbsPath(path, dir), "/"), <<>>, TRUE)
        i   == CommonLen(startList, pathList)
        ups == [k \in 1..(Len(startList) - i) |-> <<".", ".">>]
        rel == ups \o SubSeq(pathList, i + 1, Len(pathList))
    IN IF Len(rel) = 0 THEN <<".">> ELSE Join(rel, "/")

\* p is the directory root or lies beneath it (p, root absolute and normalised)
IsDescendant(p, root) ==
    LET r == NormComps(Split(root, "/"), <<>>, TRUE)
        q == NormComps(Split(p, "/"), <<>>, TRUE)
    IN Len(q) > Len(r) /\ SubSeq(q, 1, Len(r)) = r

----------------------------------------------------------------------------
(* The project on disk *)

\* path_to_tx: the root of the initialised project
RootDir == <<"/", "p">>

\* directories a command may be started in
StartDirs == {RootDir, <<"/", "p", "/", "d">>}

\* regular files that exist
FilesOnDisk == {<<"/", "p", "/", "a">>, <<"/", "p", "/", "d", "/", "a">>,
                <<"/", "p", "/", "e", "n", "/", "a">>,
                <<"/", "p", "/", "d", "e", "/", "a">>,
                <<"/", "p", "/", "d", "e", "/", "b">>,
                <<"/", "p", "2", "/", "a">>, <<"/", "q", "/", "a">>}

\* file arguments given on the command line
FileArgs == {<<"/", "p", "/", "a">>,        \* in the project, exists
             <<"/", "p", "/", "b">>,        \* in the project, does not exist
             <<"/", "p", "2", "/", "a">>,   \* in a sibling of the project
             <<"/", "q", "/", "a">>}        \* elsewhere

\* os.path.exists(p) in a process whose working directory is dir
exists(p, dir) == AbsPath(p, dir) \in FilesOnDisk

EN == <<"e", "n">>
DE == <<"d", "e">>
\* language arguments; <<>> is an option that was not given
LangArgs == {EN, DE, <<>>}

\* resource arguments; <<>> is an option that was not given
ResourceArgs == {<<"p", ".", "r">>, <<"p", ".", "s">>,
                 <<"p">>, <<".", "r">>, <<"p", ".", "r", ".", "s">>,
                 <<"p", "!", ".", "r">>, <<>>}

MainSection == <<"m", "a", "i", "n">>
Host == <<"h">>

\* option names of a resource section
SOURCE_FILE == <<"source_file">>
SOURCE_LANG == <<"source_lang">>
FILE_FILTER == <<"file_filter">>
TransKey(lang) == <<"trans", lang>>

----------------------------------------------------------------------------
(* ConfigParser: a configuration maps section names to options *)

has_section(config, section) == section \in DOMAIN config

\* config.get(section, option): the value, or the exception raised
ConfigGet(config, section, option) ==
    IF section \notin DOMAIN config THEN [err |-> "NoSectionError", val |-> <<>>]
    ELSE IF option \notin DOMAIN config[section]
        THEN [err |-> "NoOptionError", val |-> <<>>]
    ELSE [err |-> "", val |-> config[section][option]]

\* config.add_section(section)
add_section(config, section) ==
    [s \in DOMAIN config \cup {section} |->
        IF s = section THEN <<>> ELSE config[s]]

\* config.set(section, option, value), for a section that exists
ConfigSet(config, section, option, value) ==
    [config EXCEPT ![section] =
        [o \in DOMAIN config[section] \cup {option} |->
            IF o = option THEN value ELSE config[section][o]]]

\* utils.valid_slug(slug): project_slug.resource_slug over the slug characters
valid_slug(slug) ==
    LET parts == Split(slug, ".") IN
    /\ Len(parts) = 2
    /\ \A k \in 1..2 :
        /\ Len(parts[k]) > 0
        /\ \A j \in 1..Len(parts[k]) : parts[k][j] \in SlugChars

\* how a command ended, and what it left behind
Outcome(res, disk, inMemory, dir, io) ==
    [result |-> res, saved |-> disk, mem |-> inMemory, cwd |-> dir, fileIO |-> io]

----------------------------------------------------------------------------
(* _set_source_file and _set_translation *)

\* the root_dir test with its operands exchanged
UnderRoot_inverted(path_to_file, dir) ==
    IsSubstring(NormPath(AbsPath(path_to_file, dir)), AbsPath(RootDir, dir))

\* the root_dir test of both setters
UnderRoot(path_to_file, dir) ==
    IsSubstring(AbsPath(RootDir, dir), NormPath(AbsPath(path_to_file, dir)))

\* the source language test when it never fires
IsSourceLanguage_never(lang, source_lang) == FALSE

\* the test that keeps a translation out of the source language's slot
IsSourceLanguage(lang, source_lang) == lang = source_lang

\* the try/finally starting the section afresh
SetSourceOptions_fresh_section(config, section, lang, path) ==
    LET c1 == add_section(config, section)
    IN ConfigSet(ConfigSet(c1, section, SOURCE_FILE, path),
                 section, SOURCE_LANG, lang)

\* the try/finally that writes source_file and source_lang
SetSourceOptions(config, section, lang, path) ==
    LET got == ConfigGet(config, section, SOURCE_FILE)
        c1  == IF got.err = "NoSectionError" THEN add_section(config, section)
               ELSE config
    IN ConfigSet(ConfigSet(c1, section, SOURCE_FILE, path),
                 section, SOURCE_LANG, lang)

\* _set_source_file(path_to_tx, resource, lang, path_to_file), started in dir
\* with disk as the saved configuration
set_source_file(disk, dir, resource, lang, path_to_file) ==
    LET parts == Split(resource, ".") IN
    IF Len(parts) # 2 THEN Outcome("ValueError", disk, disk, dir, FALSE)
    ELSE LET proj == parts[1]
             res  == parts[2]
             section == proj \o <<".">> \o res
         IN
         IF Len(proj) = 0 \/ Len(res) = 0
             THEN Outcome("InvalidIdentifier", disk, disk, dir, FALSE)
         ELSE IF Len(lang) = 0
             THEN Outcome("NoSourceLanguage", disk, disk, dir, FALSE)
         \* _go_to_dir(path_to_tx): from here on the process is in RootDir
         ELSE IF ~exists(path_to_file, RootDir)
             THEN Outcome("FileDoesNotExist", disk, disk, RootDir, TRUE)
         ELSE IF ~UnderRoot(path_to_file, RootDir)
             THEN Outcome("NotUnderRoot", disk, disk, RootDir, TRUE)
         ELSE LET rel == relpath(path_to_file, AbsPath(RootDir, RootDir), RootDir)
                  new == SetSourceOptions(disk, section, lang, rel)
              IN Outcome("ok", new, new, RootDir, TRUE)

\* _set_translation(path_to_tx, resource, lang, path_to_file), started in dir
\* with disk as the saved configuration
set_translation(disk, dir, resource, lang, path_to_file) ==
    LET parts == Split(resource, ".") IN
    IF Len(parts) # 2 THEN Outcome("ValueError", disk, disk, dir, FALSE)
    ELSE LET proj == parts[1]
             res  == parts[2]
             section == proj \o <<".">> \o res
             \* `not project or not resource`: the module txclib.project is
             \* never false, the whole argument is false when it is empty
             invalid == Len(resource) = 0
             got == ConfigGet(disk, section, SOURCE_LANG)
         IN
         IF invalid THEN Outcome("InvalidIdentifier", disk, disk, dir, FALSE)
         \* _go_to_dir(path_to_tx), then os.path.exists (a warning only)
         ELSE IF ~UnderRoot(path_to_file, RootDir)
             THEN Outcome("NotUnderRoot", disk, disk, RootDir, TRUE)
         ELSE IF got.err # "" THEN Outcome(got.err, disk, disk, RootDir, TRUE)
         ELSE IF IsSourceLanguage(lang, got.val)
             THEN Outcome("SourceLanguage", disk, disk, RootDir, TRUE)
         ELSE LET rel == relpath(path_to_file, AbsPath(RootDir, RootDir), RootDir)
                  new == ConfigSet(disk, section, TransKey(lang), rel)
              IN Outcome("ok", new, new, RootDir, TRUE)

----------------------------------------------------------------------------
(* cmd_set *)

\* tx set --source -r resource -l lang file
cmd_set_source(disk, dir, resource, lang, file) ==
    IF Len(resource) = 0 THEN Outcome("ParserError", disk, disk, dir, FALSE)
    ELSE IF Len(lang) = 0 THEN Outcome("ParserError", disk, disk, dir, FALSE)
    ELSE IF ~valid_slug(resource)
        THEN Outcome("ParserError", disk, disk, dir, FALSE)
    ELSE set_source_file(disk, dir, resource, lang, relpath(file, RootDir, dir))

\* tx set -r resource -l lang file
cmd_set_translation(disk, dir, resource, lang, file) ==
    IF Len(resource) = 0 \/ Len(lang) = 0
        THEN Outcome("ParserError", disk, disk, dir, FALSE)
    \* relpath, then _go_to_dir(path_to_tx), then the slug is validated
    ELSE IF ~valid_slug(resource)
        THEN Outcome("ParserError", disk, disk, RootDir, FALSE)
    ELSE set_translation(disk, RootDir, resource, lang, relpath(file, RootDir, dir))

\* tx set --auto-local -r resource -s source_language [-f source_file]
\* [--execute] expression
LANG_TOKEN == <<"<", "l", "a", "n", "g", ">">>

\* characters of a language code: letters, digits, '_' and '-'
LangChars == {"e", "n", "d", "a", "b", "_", "-"}

\* one path component of the compiled expression against one component of a
\* path: <lang> matches a language-code token, every other character itself
MatchComp(ec, fc) ==
    IF IsSubstring(LANG_TOKEN, ec)
    THEN LET at == CHOOSE i \in 1..Len(ec) :
                       SubSeq(ec, i, i + Len(LANG_TOKEN) - 1) = LANG_TOKEN
             pre == SubSeq(ec, 1, at - 1)
             suf == SubSeq(ec, at + Len(LANG_TOKEN), Len(ec))
             n == Len(fc) - Len(pre) - Len(suf)
             tok == SubSeq(fc, Len(pre) + 1, Len(pre) + n)
         IN [ok |-> /\ n > 0
                    /\ SubSeq(fc, 1, Len(pre)) = pre
                    /\ SubSeq(fc, Len(pre) + n + 1, Len(fc)) = suf
                    /\ \A j \in 1..n : tok[j] \in LangChars,
             tok |-> tok]
    ELSE [ok |-> ec = fc, tok |-> <<>>]

\* the language code the compiled expression captures from f_path, <<>> when
\* f_path does not match: expression is rooted at curpath, every <lang> is a
\* group matching a language-code token, the match covers the whole path and
\* match.group(1) is the token of the first group
MatchLang(expression, curpath, f_path) ==
    LET ecs == Split(PathJoin(curpath, expression), "/")
        fcs == Split(f_path, "/")
        groups == {k \in 1..Len(ecs) : IsSubstring(LANG_TOKEN, ecs[k])}
        first == CHOOSE k \in groups : \A j \in groups : k <= j
    IN IF /\ Len(ecs) = Len(fcs)
          /\ \A k \in 1..Len(ecs) : MatchComp(ecs[k], fcs[k]).ok
       THEN MatchComp(ecs[first], fcs[first]).tok ELSE <<>>

\* the files os.walk(curpath) yields that the expression matches
MatchingFiles(expression, curpath) ==
    {f \in FilesOnDisk : IsDescendant(f, curpath)
                         /\ MatchLang(expression, curpath, f) # <<>>}

\* the directory of a file, as path components
DirOf(f_path) ==
    LET comps == Split(f_path, "/") IN SubSeq(comps, 1, Len(comps) - 1)

\* the orders in which os.walk may visit a set of files: top-down, the files
\* of a directory before those of its subdirectories, one subtree after the
\* other, directories and the files of a directory in any order
WalkOrders(files) ==
    {w \in [1..Cardinality(files) -> files] :
        /\ \A i, j \in 1..Cardinality(files) : i # j => w[i] # w[j]
        /\ \A i, j \in 1..Cardinality(files) :
              i < j => ~(/\ Len(DirOf(w[j])) < Len(DirOf(w[i]))
                        /\ CommonLen(DirOf(w[i]), DirOf(w[j])) = Len(DirOf(w[j])))
        /\ \A i, j, k \in 1..Cardinality(files) :
              (i < j /\ j < k)
              => CommonLen(DirOf(w[i]), DirOf(w[k]))
                    <= CommonLen(DirOf(w[i]), DirOf(w[j]))}

\* the loop over the walk keeping the first file of a language
RECURSIVE WalkLoop_first_wins(_, _, _, _, _, _)
WalkLoop_first_wins(walk, expression, curpath, source_language, source_file, translation_files) ==
    IF Len(walk) = 0
        THEN [source_file |-> source_file, translation_files |-> translation_files]
    ELSE LET f_path == Head(walk)
             lang == MatchLang(expression, curpath, f_path)
         IN IF lang = source_language /\ Len(source_file) = 0
                THEN WalkLoop_first_wins(Tail(walk), expression, curpath,
                         source_language, f_path, translation_files)
            ELSE WalkLoop_first_wins(Tail(walk), expression, curpath,
                     source_language, source_file,
                     [l \in DOMAIN translation_files \cup {lang} |->
                         IF l \in DOMAIN translation_files
                         THEN translation_files[l] ELSE f_path])

\* the loop over the walk: the source file and the translation_files dict
RECURSIVE WalkLoop(_, _, _, _, _, _)
WalkLoop(walk, expression, curpath, source_language, source_file, translation_files) ==
    IF Len(walk) = 0
        THEN [source_file |-> source_file, translation_files |-> translation_files]
    ELSE LET f_path == Head(walk)
             lang == MatchLang(expression, curpath, f_path)
         IN IF lang = source_language /\ Len(source_file) = 0
                THEN WalkLoop(Tail(walk), expression, curpath, source_language,
                              f_path, translation_files)
            ELSE WalkLoop(Tail(walk), expression, curpath, source_language,
                          source_file,
                          [l \in DOMAIN translation_files \cup {lang} |->
                              IF l = lang THEN f_path ELSE translation_files[l]])

\* _auto_local going on without a source file
auto_local_unchecked(disk, curpath, resource, source_language, expression, execute, source_file, nosource, walk) ==
    LET found == WalkLoop(walk, expression, curpath, source_language,
                          source_file, <<>>)
        src == IF nosource \/ ~execute \/ Len(found.source_file) = 0
               THEN Outcome("ok", disk, disk, curpath, TRUE)
               ELSE set_source_file(disk, curpath, resource, source_language,
                        relpath(found.source_file, RootDir, curpath))
        got == ConfigGet(src.saved, resource, SOURCE_FILE)
        file_filter == relpath(PathJoin(curpath, expression), RootDir, src.cwd)
    IN
    IF src.result # "ok"
        THEN Outcome(src.result, src.saved, src.mem, src.cwd, TRUE)
    ELSE IF ~execute THEN Outcome("ok", src.saved, src.saved, src.cwd, TRUE)
    ELSE IF got.err = "NoSectionError"
        THEN Outcome("NoResource", src.saved, src.saved, src.cwd, TRUE)
    ELSE IF got.err # "" THEN Outcome(got.err, src.saved, src.saved, src.cwd, TRUE)
    ELSE LET new == ConfigSet(src.saved, resource, FILE_FILTER, file_filter)
         IN Outcome("ok", new, new, src.cwd, TRUE)

\* _auto_local(path_to_tx, resource, source_language, expression, execute,
\* source_file, nosource), started in curpath with disk as the saved
\* configuration and the walk visiting the matching files in the order walk
auto_local(disk, curpath, resource, source_language, expression, execute, source_file, nosource, walk) ==
    LET found == WalkLoop(walk, expression, curpath, source_language,
                          source_file, <<>>)
        src == IF nosource \/ ~execute \/ Len(found.source_file) = 0
               THEN Outcome("ok", disk, disk, curpath, TRUE)
               ELSE set_source_file(disk, curpath, resource, source_language,
                        relpath(found.source_file, RootDir, curpath))
        got == ConfigGet(src.saved, resource, SOURCE_FILE)
        file_filter == relpath(PathJoin(curpath, expression), RootDir, src.cwd)
    IN
    IF ~nosource /\ Len(found.source_file) = 0
        THEN Outcome("NoSourceFile", disk, disk, curpath, TRUE)
    ELSE IF src.result # "ok"
        THEN Outcome(src.result, src.saved, src.mem, src.cwd, TRUE)
    ELSE IF ~execute THEN Outcome("ok", src.saved, src.saved, src.cwd, TRUE)
    ELSE IF got.err = "NoSectionError"
        THEN Outcome("NoResource", src.saved, src.saved, src.cwd, TRUE)
    ELSE IF got.err # "" THEN Outcome(got.err, src.saved, src.saved, src.cwd, TRUE)
    ELSE LET new == ConfigSet(src.saved, resource, FILE_FILTER, file_filter)
         IN Outcome("ok", new, new, src.cwd, TRUE)

cmd_set_auto_local(disk, dir, resource, source_language, expression, execute, source_file, walk) ==
    IF Len(expression) = 0 THEN Outcome("ParserError", disk, disk, dir, FALSE)
    ELSE IF Len(resource) = 0 THEN Outcome("ParserError", disk, disk, dir, FALSE)
    ELSE IF Len(source_language) = 0
        THEN Outcome("ParserError", disk, disk, dir, FALSE)
    ELSE IF ~IsSubstring(LANG_TOKEN, expression)
        THEN Outcome("ParserError", disk, disk, dir, FALSE)
    ELSE IF ~valid_slug(resource)
        THEN Outcome("ParserError", disk, disk, dir, FALSE)
    ELSE auto_local(disk, dir, resource, source_language, expression, execute,
                    source_file, FALSE, walk)

\* an i18n type the remote service reports, and the file extension it has
PO == <<"P", "O">>
ExtensionFor(i18n_type) == IF i18n_type = PO THEN <<".", "p", "o">> ELSE <<>>

\* Project.set_remote_resource(resource, host, source_lang, i18n_type)
set_remote_resource(config, resource, source_lang, i18n_type) ==
    LET c1 == IF has_section(config, resource) THEN config
              ELSE add_section(config, resource)
        file_filter == <<"t", "/">> \o resource \o <<"/">> \o LANG_TOKEN
                       \o ExtensionFor(i18n_type)
    IN ConfigSet(ConfigSet(c1, resource, SOURCE_LANG, source_lang),
                 resource, FILE_FILTER, file_filter)

\* the loop of _auto_remote passing over a resource whose details lack a
\* field
RECURSIVE RemoteLoop_skips(_, _)
RemoteLoop_skips(config, listing) ==
    IF Len(listing) = 0 THEN [err |-> "", config |-> config]
    ELSE LET r == Head(listing) IN
         IF Len(Split(r.resource, ".")) # 2
             THEN [err |-> "ValueError", config |-> config]
         ELSE IF Len(r.source_lang) = 0 \/ Len(r.i18n_type) = 0
             THEN RemoteLoop_skips(config, Tail(listing))
         ELSE RemoteLoop_skips(set_remote_resource(config, r.resource,
                                   r.source_lang, r.i18n_type),
                               Tail(listing))

\* the loop of _auto_remote over the listed resources; each entry of listing
\* holds a resource identifier and the source language code and i18n type of
\* its resource_details response (<<>> for a field the response lacks)
RECURSIVE RemoteLoop(_, _)
RemoteLoop(config, listing) ==
    IF Len(listing) = 0 THEN [err |-> "", config |-> config]
    ELSE LET r == Head(listing) IN
         IF Len(Split(r.resource, ".")) # 2
             THEN [err |-> "ValueError", config |-> config]
         ELSE IF Len(r.source_lang) = 0 \/ Len(r.i18n_type) = 0
             THEN [err |-> "UnsupportedServer", config |-> config]
         ELSE RemoteLoop(set_remote_resource(config, r.resource, r.source_lang,
                                             r.i18n_type),
                         Tail(listing))

\* _auto_remote saving after every resource it registers
auto_remote_saves_each(disk, dir, listing) ==
    LET done == RemoteLoop(disk, listing) IN
    IF done.err # "" THEN Outcome(done.err, done.config, done.config, dir, TRUE)
    ELSE Outcome("ok", done.config, done.config, dir, TRUE)

\* _auto_remote(path_to_tx, url) for a url that lists the resources of listing
auto_remote(disk, dir, listing) ==
    LET done == RemoteLoop(disk, listing) IN
    IF done.err # "" THEN Outcome(done.err, disk, done.config, dir, TRUE)
    ELSE Outcome("ok", done.config, done.config, dir, TRUE)

----------------------------------------------------------------------------
(* The commands as steps of the model *)

Command(op, resource, lang, file, extra) ==
    [op |-> op, resource |-> resource, lang |-> lang, file |-> file,
     extra |-> extra]

NoCommand == Command("none", <<>>, <<>>, <<>>, <<>>)

\* the shell is at its prompt: no command is running or has just ended
AtPrompt == cmd.op = "none"

\* a command can be started: the shell is at its prompt
CanRun == AtPrompt /\ ncmd < MaxCmds

\* the effect of one command on the state
Ran(c, dir, out) ==
    /\ ncmd' = ncmd + 1
    /\ cmd' = c
    /\ cwd0' = dir
    /\ saved0' = saved
    /\ \E o \in {out} :
        /\ saved' = o.saved
        /\ mem' = o.mem
        /\ cwd' = o.cwd
        /\ result' = o.result
        /\ fileIO' = o.fileIO
    /\ UNCHANGED pushVars

CmdSetSource ==
    /\ CanRun
    /\ \E dir \in StartDirs, resource \in ResourceArgs, lang \in LangArgs,
          file \in FileArgs :
           Ran(Command("set_source", resource, lang, file, <<>>), dir,
               cmd_set_source(saved, dir, resource, lang, file))

CmdSetTranslation ==
    /\ CanRun
    /\ \E dir \in StartDirs, resource \in ResourceArgs, lang \in LangArgs,
          file \in FileArgs :
           Ran(Command("set_translation", resource, lang, file, <<>>), dir,
               cmd_set_translation(saved, dir, resource, lang, file))

\* expressions given to --auto-local; the second has no <lang>, the third has
\* it twice
ExprArgs == {LANG_TOKEN \o <<"/", "a">>, <<"a">>,
             <<"d">> \o LANG_TOKEN \o <<"/">> \o LANG_TOKEN}

\* -f arguments of --auto-local; <<>> is an option that was not given
SourceFileArgs == {<<>>, <<"/", "p", "/", "a">>, <<"/", "q", "/", "a">>}

AutoResourceArgs == {<<"p", ".", "r">>, <<"p", ".", "s">>, <<"p">>}

CmdAutoLocal ==
    /\ CanRun
    /\ \E dir \in StartDirs, expression \in ExprArgs :
        \E walk \in WalkOrders(IF IsSubstring(LANG_TOKEN, expression)
                               THEN MatchingFiles(expression, dir) ELSE {}) :
           \E resource \in AutoResourceArgs, lang \in LangArgs,
              file \in SourceFileArgs, execute \in BOOLEAN :
               Ran(Command("auto_local", resource, lang, file,
                           [expression |-> expression, execute |-> execute,
                            walk |-> walk]), dir,
                   cmd_set_auto_local(saved, dir, resource, lang, expression,
                                      execute, file, walk))

\* what a resource_details response may hold for a listed resource
RemoteEntries ==
    [resource : {<<"p", ".", "r">>, <<"p", ".", "s">>}, source_lang : {EN, <<>>},
     i18n_type : {PO, <<>>}]

\* the response holds the source language code and the i18n type
Complete(entry) == Len(entry.source_lang) > 0 /\ Len(entry.i18n_type) > 0

\* the resources a url lists, each with its resource_details response; the
\* details are requested resource by resource and the loop ends at the first
\* response that lacks a field, so the resources after it are never asked
\* about and stand here with a complete response
Listings ==
    UNION {{l \in [1..n -> RemoteEntries] :
               \A i, j \in 1..n : (i < j /\ ~Complete(l[i])) => Complete(l[j])} :
           n \in 1..MaxListed}

CmdAutoRemote ==
    /\ CanRun
    /\ \E dir \in StartDirs, listing \in Listings :
           Ran(Command("auto_remote", <<>>, <<>>, <<>>, listing), dir,
               auto_remote(saved, dir, listing))

\* the process of the command ends and the shell is back at its prompt
Exit ==
    /\ ~AtPrompt
    /\ cmd' = NoCommand
    /\ result' = "none"
    /\ saved0' = saved
    /\ mem' = saved
    /\ cwd' = RootDir
    /\ cwd0' = RootDir
    /\ fileIO' = FALSE
    /\ UNCHANGED <<saved, ncmd>>
    /\ UNCHANGED pushVars

\* the configuration tx init writes: a main section holding the host
InitConfig == [s \in {MainSection} |-> [o \in {<<"host">>} |-> Host]]

\* the configuration after tx set --source -r p.r -l en a
ConfiguredConfig ==
    SetSourceOptions(InitConfig, <<"p", ".", "r">>, EN, <<"a">>)

InitSetVars ==
    /\ saved \in {InitConfig, ConfiguredConfig}
    /\ saved0 = saved
    /\ mem = saved
    /\ cwd = RootDir
    /\ cwd0 = RootDir
    /\ cmd = NoCommand
    /\ result = "none"
    /\ fileIO = FALSE
    /\ ncmd = 0

\* cmd_push has not run
NoOptions ==
    [force |-> FALSE, skip |-> FALSE, source |-> FALSE, translations |-> FALSE]

InitPushVars ==
    /\ pc = "idle"
    /\ txdata = <<>>
    /\ remote = <<>>
    /\ opts = NoOptions
    /\ reqs = <<>>
    /\ ri = 0
    /\ li = 0
    /\ uuid = 0
    /\ issued = 0
    /\ exitStatus = -1
    /\ localFiles = <<>>

InitSet == InitSetVars /\ InitPushVars

NextSet ==
    \/ CmdSetSource
    \/ CmdSetTranslation
    \/ CmdAutoLocal
    \/ CmdAutoRemote
    \/ Exit

SpecSet == InitSet /\ [][NextSet]_vars

\* set-source and set-translation alone
NextSetters == CmdSetSource \/ CmdSetTranslation \/ Exit

SpecSetters == InitSet /\ [][NextSetters]_vars

----------------------------------------------------------------------------
(* Properties of the set commands *)

Setters == {"set_source", "set_translation"}

\* the resource sections of a configuration
Resources(config) == DOMAIN config \ {MainSection}

\* the file paths a configuration registers for a resource
RegisteredPaths(config, section) ==
    {config[section][o] : o \in {k \in DOMAIN config[section] :
                                    k = SOURCE_FILE \/ k[1] = "trans"}}

\* the absolute path a registered path stands for
Resolve(path) == AbsPath(path, RootDir)

\* the source language the last command found configured for its resource
SourceLangBefore ==
    IF cmd.resource \in DOMAIN saved0 /\ SOURCE_LANG \in DOMAIN saved0[cmd.resource]
    THEN saved0[cmd.resource][SOURCE_LANG] ELSE <<>>

Failed == result \notin {"ok", "none"}

\* C1 (as claimed): after any sequence of set-source and set-translation
\* commands, no resource has its source_lang as a key trans.<lang> of its
\* translation mapping.
C1_SourceLangNeverTranslation ==
    \A s \in Resources(saved) :
        SOURCE_LANG \in DOMAIN saved[s]
            => TransKey(saved[s][SOURCE_LANG]) \notin DOMAIN saved[s]

\* C2: set-translation with a language equal to the source_lang configured
\* for the resource ends with an error, and the configuration in memory and
\* the saved one are what they were before the command.
C2_SourceLangTranslationRejected ==
    (cmd.op = "set_translation" /\ Len(cmd.lang) > 0
        /\ cmd.lang = SourceLangBefore)
    => (Failed /\ saved = saved0 /\ mem = saved0)

C2_Witness ==
    /\ cmd.op = "set_translation"
    /\ cmd.lang = SourceLangBefore
    /\ result = "SourceLanguage"
    /\ \E l \in {EN, DE} : TransKey(l) \in DOMAIN saved0[cmd.resource]

\* C3 (as claimed): set-source and set-translation fail and register nothing
\* for a file that is not a descendant of the project root, and every
\* registered path resolves to a descendant of the project root.
C3_OnlyDescendantsRegistered ==
    /\ (cmd.op \in Setters /\ ~IsDescendant(cmd.file, RootDir))
            => (Failed /\ saved = saved0)
    /\ \A s \in Resources(saved) : \A path \in RegisteredPaths(saved, s) :
            IsDescendant(Resolve(path), RootDir)

\* C4 (as claimed): for a resource identifier that is no valid slug pair,
\* set-source and set-translation end with a validation error, having done no
\* file I/O, not changed the working directory and not changed the
\* configuration.
C4_InvalidSlugRejectedFirst ==
    (cmd.op \in Setters /\ ~valid_slug(cmd.resource))
    => /\ result = "ParserError"
       /\ ~fileIO
       /\ cwd = cwd0
       /\ saved = saved0 /\ mem = saved0

\* C5 (as claimed): for a valid slug pair, set-source and set-translation
\* succeed given a language, the path of an existing file under the project
\* root and, for set-translation, a language other than the source language,
\* also when the resource has no section yet.
C5_ValidSlugSucceeds ==
    (/\ cmd.op \in Setters
     /\ valid_slug(cmd.resource)
     /\ Len(cmd.lang) > 0
     /\ IsDescendant(cmd.file, RootDir)
     /\ cmd.file \in FilesOnDisk
     /\ cmd.op = "set_translation" => cmd.lang # SourceLangBefore)
    => result = "ok"

\* C5 (amended): for a valid slug pair and a language, set-source succeeds
\* for an existing file under the project root, creating the section when it
\* is missing; set-translation succeeds for a path under the project root
\* when the resource has a source_lang other than the language, and ends with
\* an error that changes nothing when the resource has no section.
C5_ValidSlugSucceedsOnConfigured ==
    (cmd.op \in Setters /\ valid_slug(cmd.resource) /\ Len(cmd.lang) > 0
        /\ IsDescendant(cmd.file, RootDir))
    => /\ (cmd.op = "set_source" /\ cmd.file \in FilesOnDisk)
            => /\ result = "ok"
               /\ cmd.resource \in Resources(saved)
               /\ Resolve(saved[cmd.resource][SOURCE_FILE]) = cmd.file
               /\ saved[cmd.resource][SOURCE_LANG] = cmd.lang
       /\ (cmd.op = "set_translation" /\ SourceLangBefore # <<>>
                /\ cmd.lang # SourceLangBefore)
            => /\ result = "ok"
               /\ Resolve(saved[cmd.resource][TransKey(cmd.lang)]) = cmd.file
       /\ (cmd.op = "set_translation" /\ cmd.resource \notin DOMAIN saved0)
            => (result = "NoSectionError" /\ saved = saved0)

C5_Witness ==
    /\ cmd.op = "set_source"
    /\ valid_slug(cmd.resource)
    /\ cmd.resource \notin DOMAIN saved0
    /\ IsDescendant(cmd.file, RootDir)
    /\ result = "ok"

\* C6: a set command (set-source, set-translation, auto-local, auto-remote)
\* that ends with an error leaves the saved configuration as it was before
\* the command.
C6_FailedCommandSavesNothing ==
    (cmd.op \in {"set_source", "set_translation", "auto_local", "auto_remote"}
        /\ Failed)
    => saved = saved0

C6_Witness ==
    /\ cmd.op = "auto_remote"
    /\ result = "UnsupportedServer"
    /\ mem # saved0
    /\ saved = saved0

\* the listed resources of the last command, an auto-remote, whose
\* resource_details response lacks a field
LackingField ==
    {i \in 1..Len(cmd.extra) :
        Len(cmd.extra[i].source_lang) = 0 \/ Len(cmd.extra[i].i18n_type) = 0}

\* C18: an auto-remote in which the details of some listed resource lack the
\* source language code or the i18n type ends with an error, and the saved
\* configuration is what it was before the command: no resource of the run
\* is saved, the ones registered before the failing one included.
C18_UnsupportedServerSavesNothing ==
    (cmd.op = "auto_remote" /\ LackingField # {})
    => /\ result = "UnsupportedServer"
       /\ saved = saved0

C18_Witness ==
    /\ cmd.op = "auto_remote"
    /\ Len(cmd.extra) = 2
    /\ LackingField = {2}
    /\ cmd.extra[2].source_lang = EN
    /\ cmd.extra[1].resource \notin DOMAIN saved0
    /\ cmd.extra[1].resource \in DOMAIN mem
    /\ result = "UnsupportedServer"
    /\ saved = saved0

\* what the loop over the walk of the last command, an auto-local, built
Found ==
    WalkLoop(cmd.extra.walk, cmd.extra.expression, cwd0, cmd.lang, cmd.file,
             <<>>)

\* the language code captured from the i-th file the walk visited
Code(i) == MatchLang(cmd.extra.expression, cwd0, cmd.extra.walk[i])

\* the last command is an auto-local that got as far as its walk
Walked == cmd.op = "auto_local" /\ result # "ParserError"

\* the 'tx set -r resource -l lang file' commands an auto-local without
\* --execute prints, run from curpath one after the other; they set different
\* keys, so the order of the sorted items does not show in the result
RECURSIVE RunPrintedTranslations(_, _, _, _)
RunPrintedTranslations(disk, curpath, resource, translation_files) ==
    IF DOMAIN translation_files = {} THEN disk
    ELSE LET lang == CHOOSE l \in DOMAIN translation_files : TRUE
             rest == [l \in DOMAIN translation_files \ {lang} |->
                         translation_files[l]]
             ran == cmd_set_translation(disk, curpath, resource, lang,
                        relpath(translation_files[lang], curpath, curpath))
         IN RunPrintedTranslations(ran.saved, curpath, resource, rest)

\* the saved configuration after the commands an auto-local without --execute
\* prints have been run from curpath: the 'tx set --source' command first
RunPrinted(disk, curpath, resource, source_language, found) ==
    LET ran == cmd_set_source(disk, curpath, resource, source_language,
                   relpath(found.source_file, curpath, curpath))
    IN RunPrintedTranslations(ran.saved, curpath, resource,
                              found.translation_files)

\* C15: for every order of the walk, every language code of the mapping built
\* by auto-local maps to the last visited file that matched that code, and
\* every visited file whose code is not the source language has its code in
\* the mapping.
C15_LastMatchWins ==
    Walked
    => LET walk == cmd.extra.walk
           code == [i \in 1..Len(walk) |-> Code(i)]
           translation_files == Found.translation_files
       IN /\ \A lang \in DOMAIN translation_files :
               \E i \in 1..Len(walk) :
                   /\ code[i] = lang
                   /\ translation_files[lang] = walk[i]
                   /\ \A j \in (i + 1)..Len(walk) : code[j] # lang
          /\ \A i \in 1..Len(walk) :
               code[i] # cmd.lang => code[i] \in DOMAIN translation_files

C15_Witness ==
    /\ Walked
    /\ \E i, j \in 1..Len(cmd.extra.walk) :
        /\ i < j
        /\ Code(i) = Code(j)
        /\ Code(i) # cmd.lang
        /\ Found.translation_files[Code(i)] = cmd.extra.walk[j]
        /\ cmd.extra.walk[i] = <<"/", "p", "/", "d", "e", "/", "b">>

\* C16 (as claimed): in auto-local no file whose code is the source language
\* enters the translation mapping, with or without an explicit source file and
\* however many files match the source language; it becomes the source file
\* only when none was supplied.
C16_SourceLangNotInMapping ==
    Walked
    => /\ cmd.lang \notin DOMAIN Found.translation_files
       /\ Len(cmd.file) > 0 => Found.source_file = cmd.file

\* C17: an auto-local with no explicit source file and no visited file of the
\* source language ends with an error, and the configuration in memory and
\* the saved one are what they were before the command.
C17_NoSourceFileFails ==
    (/\ Walked
     /\ Len(cmd.file) = 0
     /\ \A i \in 1..Len(cmd.extra.walk) : Code(i) # cmd.lang)
    => /\ result = "NoSourceFile"
       /\ saved = saved0
       /\ mem = saved0

C17_Witness ==
    /\ Walked
    /\ result = "NoSourceFile"
    /\ cmd.extra.execute
    /\ Len(cmd.extra.walk) > 0
    /\ has_section(saved0, cmd.resource)

\* C19 (as claimed): an auto-local with --execute that succeeds leaves the
\* saved configuration that running the commands the same run prints without
\* --execute leaves: the source file set and one trans.<lang> entry for each
\* file of the mapping.
C19_ExecuteDoesWhatIsPrinted ==
    (Walked /\ cmd.extra.execute /\ result = "ok")
    => saved = RunPrinted(saved0, cwd0, cmd.resource, cmd.lang, Found)

\* the options of a section of a configuration, none when it has no such
\* section
OptionsOf(config, section) ==
    IF section \in DOMAIN config THEN DOMAIN config[section] ELSE {}

\* C21: a set-source on resource R that succeeds changes only R's source_file
\* and source_lang, creating R's section when it is missing: every other
\* section, R's file_filter and R's trans.<lang> entries are what they were
\* before the command, in memory and saved.
C21_SetSourceChangesOnlySource ==
    (cmd.op = "set_source" /\ result = "ok")
    => /\ DOMAIN saved = DOMAIN saved0 \cup {cmd.resource}
       /\ \A s \in DOMAIN saved0 \ {cmd.resource} : saved[s] = saved0[s]
       /\ DOMAIN saved[cmd.resource]
              = OptionsOf(saved0, cmd.resource) \cup {SOURCE_FILE, SOURCE_LANG}
       /\ \A o \in OptionsOf(saved0, cmd.resource) \ {SOURCE_FILE, SOURCE_LANG} :
              saved[cmd.resource][o] = saved0[cmd.resource][o]
       /\ mem = saved

C21_Witness ==
    /\ cmd.op = "set_source"
    /\ result = "ok"
    /\ FILE_FILTER \in OptionsOf(saved0, cmd.resource)
    /\ Resources(saved0) \ {cmd.resource} # {}
    /\ saved[cmd.resource][SOURCE_LANG] # saved0[cmd.resource][SOURCE_LANG]
    /\ saved[cmd.resource][FILE_FILTER] = saved0[cmd.resource][FILE_FILTER]

----------------------------------------------------------------------------
(* cmd_push and Project.push *)

FR == <<"f", "r">>

\* the resources a project's txdata may hold; translations lists the languages
\* in the order the dict yields them
ResourcePool ==
    {[resource_slug |-> <<"a">>, source_lang |-> EN, translations |-> <<DE>>],
     [resource_slug |-> <<"a", "b">>, source_lang |-> EN,
      translations |-> <<DE, FR>>],
     [resource_slug |-> <<"b">>, source_lang |-> DE, translations |-> <<>>],
     [resource_slug |-> <<"c">>, source_lang |-> EN, translations |-> <<FR>>]}

\* lists of at most n different members of a set
ListsOf(set, n) ==
    UNION {{l \in [1..k -> set] : \A i, j \in 1..k : i # j => l[i] # l[j]} :
           k \in 0..n}

\* how the remote service may answer a request: with success, with a status
\* other than 200 and 201, or not at all (urlopen raises)
Failures == {"status", "raised"}

Request(call, what, index, resource, lang, handle, outcome) ==
    [call |-> call, what |-> what, index |-> index, resource |-> resource,
     lang |-> lang, uuid |-> handle, outcome |-> outcome]

\* sys.exit(status)
SysExit(status) ==
    /\ pc' = "exit"
    /\ exitStatus' = status

\* cmd_push: the options are parsed, and a push with neither -s nor -t is
\* refused
CmdPush ==
    /\ pc = "idle"
    /\ \E force, skip, source, translations \in BOOLEAN :
        /\ opts' = [force |-> force, skip |-> skip, source |-> source,
                    translations |-> translations]
        /\ IF ~(source \/ translations) THEN SysExit(2)
           ELSE pc' = "get_resources" /\ UNCHANGED exitStatus
    /\ UNCHANGED <<txdata, remote, reqs, ri, li, uuid, issued>>
    /\ UNCHANGED setVars
    /\ UNCHANGED localFiles

\* Project.push: the get_resources request
GetResources ==
    /\ pc = "get_resources"
    /\ \/ \E failure \in Failures :
            /\ reqs' = Append(reqs, Request("get_resources", "listing", 0,
                                            <<>>, <<>>, 0, failure))
            /\ SysExit(1)
            /\ UNCHANGED remote
       \/ \E listing \in ListsOf({r.resource_slug : r \in ResourcePool}, MaxRemote) :
            /\ reqs' = Append(reqs, Request("get_resources", "listing", 0,
                                            <<>>, <<>>, 0, "ok"))
            /\ remote' = listing
            /\ pc' = "check"
            /\ UNCHANGED exitStatus
    /\ UNCHANGED <<txdata, opts, ri, li, uuid, issued>>
    /\ UNCHANGED setVars
    /\ UNCHANGED localFiles

\* the inner loop over enumerate(local_resources), which deletes from the
\* list it iterates over
RECURSIVE DeleteNamed(_, _, _)
DeleteNamed(local_resources, name, i) ==
    IF i > Len(local_resources) THEN local_resources
    ELSE IF IsSubstring(name, local_resources[i].resource_slug)
        THEN DeleteNamed(SubSeq(local_resources, 1, i - 1)
                         \o SubSeq(local_resources, i + 1, Len(local_resources)),
                         name, i + 1)
    ELSE DeleteNamed(local_resources, name, i + 1)

\* local_resources after the loop over remote_resources
RECURSIVE NotOnRemote(_, _)
NotOnRemote(local_resources, remote_resources) ==
    IF Len(remote_resources) = 0 THEN local_resources
    ELSE NotOnRemote(DeleteNamed(local_resources, Head(remote_resources), 1),
                     Tail(remote_resources))

\* the position after the files of resource i: the next resource, or the end
\* of Project.push and of cmd_push
NextResource(i) ==
    IF i < Len(txdata)
        THEN pc' = "push_source" /\ ri' = i + 1 /\ li' = 0
             /\ UNCHANGED exitStatus
    ELSE SysExit(0) /\ UNCHANGED <<ri, li>>

\* Project.push: local resources the remote service does not list stop the
\* push unless it is forced
CheckRemote ==
    /\ pc = "check"
    /\ IF NotOnRemote(txdata, remote) # <<>> /\ ~opts.force
           THEN SysExit(1) /\ UNCHANGED <<ri, li>>
       ELSE NextResource(0)
    /\ UNCHANGED <<txdata, remote, opts, reqs, uuid, issued>>
    /\ UNCHANGED setVars
    /\ UNCHANGED localFiles

\* Project.push: the upload of the source file of resource ri
PushSource ==
    /\ pc = "push_source"
    /\ LET resource == txdata[ri] IN
       \/ \E failure \in Failures :
            /\ reqs' = Append(reqs, Request("push_file", "source", ri,
                                  resource.resource_slug, resource.source_lang,
                                  0, failure))
            /\ SysExit(1)
            /\ UNCHANGED <<uuid, issued>>
       \/ /\ reqs' = Append(reqs, Request("push_file", "source", ri,
                                  resource.resource_slug, resource.source_lang,
                                  issued + 1, "ok"))
          /\ issued' = issued + 1
          /\ uuid' = issued + 1
          /\ pc' = "extract_source"
          /\ UNCHANGED exitStatus
    /\ UNCHANGED <<txdata, remote, opts, ri, li>>
    /\ UNCHANGED setVars
    /\ UNCHANGED localFiles

\* the position after the extract of the source, or of translation i, of
\* resource ri
NextTranslation(i) ==
    IF i < Len(txdata[ri].translations)
        THEN pc' = "push_translation" /\ li' = i + 1
             /\ UNCHANGED <<ri, exitStatus>>
    ELSE NextResource(ri)

\* Project.push: the extract_source request
ExtractSource ==
    /\ pc = "extract_source"
    /\ LET resource == txdata[ri] IN
       \/ \E failure \in Failures :
            /\ reqs' = Append(reqs, Request("extract_source", "source", ri,
                                  resource.resource_slug, resource.source_lang,
                                  uuid, failure))
            /\ SysExit(1)
            /\ UNCHANGED <<ri, li>>
       \/ /\ reqs' = Append(reqs, Request("extract_source", "source", ri,
                                  resource.resource_slug, resource.source_lang,
                                  uuid, "ok"))
          /\ NextTranslation(0)
    /\ UNCHANGED <<txdata, remote, opts, uuid, issued>>
    /\ UNCHANGED setVars
    /\ UNCHANGED localFiles

\* the upload of a translation when a failed upload is passed over
PushTranslation_continues ==
    /\ pc = "push_translation"
    /\ LET resource == txdata[ri]
           lang == resource.translations[li]
       IN
       \/ \E failure \in Failures :
            /\ reqs' = Append(reqs, Request("push_file", "translation", ri,
                                  resource.resource_slug, lang, 0, failure))
            /\ NextTranslation(li)
            /\ UNCHANGED <<uuid, issued>>
       \/ /\ reqs' = Append(reqs, Request("push_file", "translation", ri,
                                  resource.resource_slug, lang, issued + 1, "ok"))
          /\ issued' = issued + 1
          /\ uuid' = issued + 1
          /\ pc' = "extract_translation"
          /\ UNCHANGED <<ri, li, exitStatus>>
    /\ UNCHANGED <<txdata, remote, opts>>
    /\ UNCHANGED setVars
    /\ UNCHANGED localFiles

\* the upload of a translation when the handle it returns is not kept
PushTranslation_keeps_handle ==
    /\ pc = "push_translation"
    /\ LET resource == txdata[ri]
           lang == resource.translations[li]
       IN
       \/ \E failure \in Failures :
            /\ reqs' = Append(reqs, Request("push_file", "translation", ri,
                                  resource.resource_slug, lang, 0, failure))
            /\ SysExit(1)
            /\ UNCHANGED <<uuid, issued>>
       \/ /\ reqs' = Append(reqs, Request("push_file", "translation", ri,
                                  resource.resource_slug, lang, issued + 1, "ok"))
          /\ issued' = issued + 1
          /\ UNCHANGED uuid
          /\ pc' = "extract_translation"
          /\ UNCHANGED exitStatus
    /\ UNCHANGED <<txdata, remote, opts, ri, li>>
    /\ UNCHANGED setVars
    /\ UNCHANGED localFiles

\* Project.push: the upload of translation li of resource ri
PushTranslation ==
    /\ pc = "push_translation"
    /\ LET resource == txdata[ri]
           lang == resource.translations[li]
       IN
       \/ \E failure \in Failures :
            /\ reqs' = Append(reqs, Request("push_file", "translation", ri,
                                  resource.resource_slug, lang, 0, failure))
            /\ SysExit(1)
            /\ UNCHANGED <<uuid, issued>>
       \/ /\ reqs' = Append(reqs, Request("push_file", "translation", ri,
                                  resource.resource_slug, lang, issued + 1, "ok"))
          /\ issued' = issued + 1
          /\ uuid' = issued + 1
          /\ pc' = "extract_translation"
          /\ UNCHANGED exitStatus
    /\ UNCHANGED <<txdata, remote, opts, ri, li>>
    /\ UNCHANGED setVars
    /\ UNCHANGED localFiles

\* Project.push: the extract_translation request
ExtractTranslation ==
    /\ pc = "extract_translation"
    /\ LET resource == txdata[ri]
           lang == resource.translations[li]
       IN
       \/ \E failure \in Failures :
            /\ reqs' = Append(reqs, Request("extract_translation",
                                  "translation", ri, resource.resource_slug,
                                  lang, uuid, failure))
            /\ SysExit(1)
            /\ UNCHANGED <<ri, li>>
       \/ /\ reqs' = Append(reqs, Request("extract_translation",
                                  "translation", ri, resource.resource_slug,
                                  lang, uuid, "ok"))
          /\ NextTranslation(li)
    /\ UNCHANGED <<txdata, remote, opts, uuid, issued>>
    /\ UNCHANGED setVars
    /\ UNCHANGED localFiles

InitPush ==
    /\ InitSetVars
    /\ saved = InitConfig
    /\ pc = "idle"
    /\ txdata \in ListsOf(ResourcePool, MaxResources)
    /\ remote = <<>>
    /\ opts = NoOptions
    /\ reqs = <<>>
    /\ ri = 0
    /\ li = 0
    /\ uuid = 0
    /\ issued = 0
    /\ exitStatus = -1
    /\ localFiles = <<>>

NextPush ==
    \/ CmdPush
    \/ GetResources
    \/ CheckRemote
    \/ PushSource
    \/ ExtractSource
    \/ PushTranslation
    \/ ExtractTranslation

SpecPush == InitPush /\ [][NextPush]_vars

----------------------------------------------------------------------------
(* Properties of push *)

Uploads == {i \in 1..Len(reqs) : reqs[i].call = "push_file"}

Extracts ==
    {i \in 1..Len(reqs) :
        reqs[i].call \in {"extract_source", "extract_translation"}}

FailedRequests == {i \in 1..Len(reqs) : reqs[i].outcome # "ok"}

\* C7 (as claimed): when a push with skip_errors set has ended, every
\* resource that follows one with a failed upload has had its own upload
\* attempted, and the push has not ended on the failure.
C7_SkipContinuesAfterFailure ==
    (pc = "exit" /\ opts.skip)
    => \A i \in Uploads \cap FailedRequests :
          \A later \in (reqs[i].index + 1)..Len(txdata) :
              \E j \in Uploads : j > i /\ reqs[j].index = later

\* C8: in a push without skip_errors a failed request is the last request
\* issued, and the push has ended with a nonzero exit status.
C8_FirstFailureAborts ==
    ~opts.skip
    => \A i \in FailedRequests :
          i = Len(reqs) /\ pc = "exit" /\ exitStatus > 0

C8_Witness ==
    /\ ~opts.skip
    /\ pc = "exit"
    /\ exitStatus = 1
    /\ Len(reqs) >= 4
    /\ reqs[Len(reqs)].call = "push_file"
    /\ reqs[Len(reqs)].outcome # "ok"
    /\ ri < Len(txdata)

\* C9: every extract request directly follows the successful upload of the
\* same file (same resource, same language) and carries the upload handle
\* that upload returned; so no extract follows a failed upload.
C9_ExtractFollowsItsUpload ==
    \A i \in Extracts :
        /\ i > 1
        /\ reqs[i - 1].call = "push_file"
        /\ reqs[i - 1].outcome = "ok"
        /\ reqs[i - 1].index = reqs[i].index
        /\ reqs[i - 1].resource = reqs[i].resource
        /\ reqs[i - 1].lang = reqs[i].lang
        /\ reqs[i - 1].what = reqs[i].what
        /\ reqs[i - 1].uuid = reqs[i].uuid

C9_Witness ==
    \E i \in Extracts :
        /\ reqs[i].call = "extract_translation"
        /\ reqs[i].outcome = "ok"
        /\ reqs[i].uuid >= 3
        /\ \E j \in Uploads \cap FailedRequests : j > i

\* C10 (as claimed): a source file is uploaded only in a push with
\* push_source, a translation file only in a push with push_translations, and
\* a push with neither issues no request.
C10_FlagsSelectUploads ==
    /\ \A i \in Uploads :
          /\ reqs[i].what = "source" => opts.source
          /\ reqs[i].what = "translation" => opts.translations
    /\ (pc # "idle" /\ ~opts.source /\ ~opts.translations) => reqs = <<>>

\* the push has passed its check of the local resources against the listing
\* the remote service returned
Checked ==
    /\ pc \notin {"idle", "get_resources", "check"}
    /\ Len(reqs) > 0
    /\ reqs[1].call = "get_resources"
    /\ reqs[1].outcome = "ok"

\* C20 (as claimed): a push with force = false has stopped after the listing
\* with exit status 1, having issued no upload and no extract, if and only if
\* the slug of some local resource is not the slug of any listed remote
\* resource; otherwise it has gone on.
C20_StopsIffSlugMissing ==
    (Checked /\ ~opts.force)
    => ((pc = "exit" /\ exitStatus = 1 /\ Len(reqs) = 1)
        <=> (\E r \in Range(txdata) : r.resource_slug \notin Range(remote)))

----------------------------------------------------------------------------
(* cmd_pull and Project.pull *)

\* "%s.new" % local_file
NewSuffix == <<".", "n", "e", "w">>

\* the resources the txdata of a pulling project may hold; translations lists
\* the (lang, f_obj) items in the order the dict yields them
PullPool ==
    {[resource_slug |-> <<"a">>,
      translations |-> <<[lang |-> DE, file |-> <<"a">>],
                         [lang |-> FR, file |-> <<"a">> \o NewSuffix]>>],
     [resource_slug |-> <<"b">>,
      translations |-> <<[lang |-> FR, file |-> <<"b">> \o NewSuffix],
                         [lang |-> DE, file |-> <<"b">>]>>],
     [resource_slug |-> <<"c">>,
      translations |-> <<[lang |-> DE, file |-> <<"c">>]>>],
     [resource_slug |-> <<"d">>, translations |-> <<>>]}

\* the completion percentage the remote service reports for a translation
Completion(resource_slug, lang) == IF lang = FR THEN 10 ELSE 100

\* values of --minimum-perc; 0 is the default
MinimumPercs == {0, 50}

\* values of -l and -r after split(','); <<>> is an option that was not given
LanguageFilters == {<<>>, <<DE>>}
ResourceFilters == {<<>>, <<<<"c">>>>}

\* the translation files a project registers
RegisteredFiles(resources) ==
    UNION {{t.file : t \in Range(r.translations)} : r \in Range(resources)}

\* what a file holds that no pull has written
LocalEdits == [origin |-> "local", resource |-> <<>>, lang |-> <<>>]

\* what a file holds after fd.write(r) of a fetched translation
Fetched(resource_slug, lang) ==
    [origin |-> "remote", resource |-> resource_slug, lang |-> lang]

\* the working tree of a project whose registered files all exist
LocalFiles(resources) == [path \in RegisteredFiles(resources) |-> LocalEdits]

\* open(local_file, 'w') and fd.write(r)
WriteFile(tree, local_file, content) ==
    [path \in DOMAIN tree \cup {local_file} |->
        IF path = local_file THEN content ELSE tree[path]]

\* cmd_pull accepting --all together with a language filter
CmdPull_unchecked ==
    /\ pc = "idle"
    /\ \E languages \in LanguageFilters, resources \in ResourceFilters,
          fetchall, overwrite \in BOOLEAN, minimum_perc \in MinimumPercs :
        /\ opts' = [languages |-> languages, resources |-> resources,
                    fetchall |-> fetchall, overwrite |-> overwrite,
                    minimum_perc |-> minimum_perc]
        /\ pc' = "pull_resources" /\ UNCHANGED exitStatus
    /\ UNCHANGED <<txdata, remote, reqs, ri, li, uuid, issued, localFiles>>
    /\ UNCHANGED setVars

\* cmd_pull: the options are parsed, and --all together with a language
\* filter is refused
CmdPull ==
    /\ pc = "idle"
    /\ \E languages \in LanguageFilters, resources \in ResourceFilters,
          fetchall, overwrite \in BOOLEAN, minimum_perc \in MinimumPercs :
        /\ opts' = [languages |-> languages, resources |-> resources,
                    fetchall |-> fetchall, overwrite |-> overwrite,
                    minimum_perc |-> minimum_perc]
        /\ IF fetchall /\ languages # <<>> THEN SysExit(2)
           ELSE pc' = "pull_resources" /\ UNCHANGED exitStatus
    /\ UNCHANGED <<txdata, remote, reqs, ri, li, uuid, issued, localFiles>>
    /\ UNCHANGED setVars

\* the (resource, translation) the loops of Project.pull reach after
\* translation l of resource r; <<0, 0>> when both loops have ended
RECURSIVE NextFile(_, _)
NextFile(r, l) ==
    IF r > Len(txdata) THEN <<0, 0>>
    ELSE IF r > 0 /\ l < Len(txdata[r].translations) THEN <<r, l + 1>>
    ELSE NextFile(r + 1, 0)

\* the position after translation l of resource r: the next pull_file
\* request, or the end of Project.pull and of cmd_pull
GoToNextFile(r, l) ==
    LET next == NextFile(r, l) IN
    IF next = <<0, 0>> THEN SysExit(0) /\ UNCHANGED <<ri, li>>
    ELSE pc' = "pull_file" /\ ri' = next[1] /\ li' = next[2]
         /\ UNCHANGED exitStatus

\* Project.pull: the get_resources request
PullGetResources ==
    /\ pc = "pull_resources"
    /\ \/ \E failure \in Failures :
            /\ reqs' = Append(reqs, Request("get_resources", "listing", 0,
                                            <<>>, <<>>, 0, failure))
            /\ SysExit(1)
            /\ UNCHANGED <<remote, ri, li>>
       \/ \E listing \in ListsOf({r.resource_slug : r \in PullPool}, MaxRemote) :
            /\ reqs' = Append(reqs, Request("get_resources", "listing", 0,
                                            <<>>, <<>>, 0, "ok"))
            /\ remote' = listing
            /\ GoToNextFile(0, 0)
    /\ UNCHANGED <<txdata, opts, uuid, issued, localFiles>>
    /\ UNCHANGED setVars

\* Project.pull: the pull_file request for translation li of resource ri, and
\* the write of what it returned
PullFile ==
    /\ pc = "pull_file"
    /\ LET resource == txdata[ri]
           lang == resource.translations[li].lang
           f_obj == resource.translations[li]
           local_file == IF ~opts.overwrite THEN f_obj.file \o NewSuffix
                         ELSE f_obj.file
       IN
       \/ \E failure \in Failures :
            /\ reqs' = Append(reqs, Request("pull_file", "translation", ri,
                                  resource.resource_slug, lang, 0, failure))
            /\ SysExit(1)
            /\ UNCHANGED <<ri, li, localFiles>>
       \/ /\ reqs' = Append(reqs, Request("pull_file", "translation", ri,
                                  resource.resource_slug, lang, 0, "ok"))
          /\ localFiles' = WriteFile(localFiles, local_file,
                                     Fetched(resource.resource_slug, lang))
          /\ GoToNextFile(ri, li)
    /\ UNCHANGED <<txdata, remote, opts, uuid, issued>>
    /\ UNCHANGED setVars

InitPull ==
    /\ InitSetVars
    /\ saved = InitConfig
    /\ pc = "idle"
    /\ txdata \in ListsOf(PullPool, MaxResources)
    /\ remote = <<>>
    /\ opts = NoOptions
    /\ reqs = <<>>
    /\ ri = 0
    /\ li = 0
    /\ uuid = 0
    /\ issued = 0
    /\ exitStatus = -1
    /\ localFiles = LocalFiles(txdata)

NextPull ==
    \/ CmdPull
    \/ PullGetResources
    \/ PullFile

SpecPull == InitPull /\ [][NextPull]_vars

----------------------------------------------------------------------------
(* Properties of pull *)

Pulls == {i \in 1..Len(reqs) : reqs[i].call = "pull_file"}

\* the paths a pull has written
Written == {path \in DOMAIN localFiles : localFiles[path].origin = "remote"}

\* C11 (as claimed): a pull requests files only for the resources of the
\* caller's resource filter and only for the languages of the caller's
\* language filter, an empty filter selecting all.
C11_FiltersSelectTransfers ==
    \A i \in Pulls :
        /\ opts.resources # <<>> => reqs[i].resource \in Range(opts.resources)
        /\ opts.languages # <<>> => reqs[i].lang \in Range(opts.languages)

\* C12 (as claimed): in a pull with overwrite = false every registered
\* translation file holds what it held before the pull, also when a
\* registered path itself ends in '.new'.
C12_NoOverwriteKeepsRegisteredFiles ==
    (pc # "idle" /\ ~opts.overwrite)
    => \A path \in RegisteredFiles(txdata) : localFiles[path] = LocalEdits

\* C13 (as claimed): a pull with minimum_perc = p writes no file for a
\* translation whose completion the remote service reports below p.
C13_MinimumPercKeepsOutIncomplete ==
    \A path \in Written :
        Completion(localFiles[path].resource, localFiles[path].lang)
            >= opts.minimum_perc

\* C14: a pull with fetchall and a non-empty language filter has ended with
\* the parser's error status, no request has been issued and no local file has
\* been written.
C14_FetchallWithLanguagesRejected ==
    (pc # "idle" /\ opts.fetchall /\ opts.languages # <<>>)
    => /\ pc = "exit"
       /\ exitStatus = 2
       /\ reqs = <<>>
       /\ localFiles = LocalFiles(txdata)

C14_Witness ==
    /\ pc = "exit"
    /\ exitStatus = 2
    /\ opts.fetchall
    /\ opts.languages = <<DE>>
    /\ \E r \in Range(txdata) : \E t \in Range(r.translations) : t.lang = DE

====
